---- MODULE Spec2Model ----
(***************************************************************************)
(* A model of bevy_spelling_tiles (src/src/main.rs): the letter-set bit     *)
(* masks, the word list, puzzle generation, guess checking and the per      *)
(* frame systems that edit the guess and record the found words.            *)
(*                                                                          *)
(* Characters are their ASCII codes ('A' = 65, 'a' = 97), strings are       *)
(* sequences of codes, u32 values are naturals below 2^32. The Text         *)
(* components (the guess, the hint and the word list as drawn) are the view *)
(* and are left out, but for the number shown in "Found Words: N".          *)
(***************************************************************************)
EXTENDS Integers, Sequences, FiniteSets, TLC

VARIABLES
    pc,                 \* where the program is: boot, the startup systems, running, panicked
    file,               \* tokens of assets/words/dict_words.txt (split_whitespace)
    all_valid_words,    \* WordList.all_valid_words
    potential_pangrams, \* WordList.potential_pangrams
    target_string,      \* GameState.target_string
    target_bits,        \* GameState.target_bits
    required_letter,    \* GameState.required_letter
    required_bit,       \* GameState.required_bit
    correct_words,      \* GameState.correct_words
    tiles,              \* LetterTile.letter of the spawned tiles, centre first
    current,            \* TriedWord.current
    found_text,         \* the number shown in "Found Words: N"
    char_events,        \* ReceivedCharacter events of this frame
    letter_events,      \* unread LetterAcceptedEvent
    accepted_events,    \* unread WordAcceptedEvent
    rejected_events,    \* unread WordRejectedEvent
    keys,               \* Input<KeyCode>: the keys just pressed this frame
    ran,                \* the systems that already ran this frame
    arg,                \* argument of the function under test (pure specifications)
    ret,                \* its result
    calls               \* number of calls made (pure specifications)

vars == <<pc, file, all_valid_words, potential_pangrams, target_string, target_bits,
          required_letter, required_bit, correct_words, tiles, current, found_text,
          char_events, letter_events, accepted_events, rejected_events, keys,
          ran, arg, ret, calls>>

wordlist_vars == <<all_valid_words, potential_pangrams>>
gamestate_vars == <<target_string, target_bits, required_letter, required_bit, correct_words>>
frame_vars == <<tiles, current, found_text, char_events, letter_events, accepted_events,
                rejected_events, keys, ran>>
pure_vars == <<arg, ret, calls>>

----------------------------------------------------------------------------
(* Characters and strings *)

UpperCaseChars == <<"A","B","C","D","E","F","G","H","I","J","K","L","M",
                    "N","O","P","Q","R","S","T","U","V","W","X","Y","Z">>
LowerCaseChars == <<"a","b","c","d","e","f","g","h","i","j","k","l","m",
                    "n","o","p","q","r","s","t","u","v","w","x","y","z">>

\* ASCII code of a one-character string: letters, the digit 1, the apostrophe, the space
Ord(c) ==
    IF \E i \in 1..26 : UpperCaseChars[i] = c
      THEN 64 + (CHOOSE i \in 1..26 : UpperCaseChars[i] = c)
    ELSE IF \E i \in 1..26 : LowerCaseChars[i] = c
      THEN 96 + (CHOOSE i \in 1..26 : LowerCaseChars[i] = c)
    ELSE IF c = "1" THEN 49
    ELSE IF c = "'" THEN 39
    ELSE 32

\* the string written as a tuple of one-character strings
Str(s) == [i \in 1..Len(s) |-> Ord(s[i])]

IsUpper(c) == c >= 65 /\ c <= 90
IsLower(c) == c >= 97 /\ c <= 122

char_to_ascii_uppercase(c) == IF IsLower(c) THEN c - 32 ELSE c
char_to_ascii_lowercase(c) == IF IsUpper(c) THEN c + 32 ELSE c
to_ascii_lowercase(word) == [i \in 1..Len(word) |-> char_to_ascii_lowercase(word[i])]
to_uppercase(word) == [i \in 1..Len(word) |-> char_to_ascii_uppercase(word[i])]
is_ascii_alphabetic(c) == IsUpper(c) \/ IsLower(c)

\* Vec::contains
Contains(vec, x) == \E i \in 1..Len(vec) : vec[i] = x

----------------------------------------------------------------------------
(* u32 arithmetic: every mask of the program is below 2^26, so no operation wraps *)

RECURSIVE Pow2Rec(_)
Pow2Rec(n) == IF n = 0 THEN 1 ELSE 2 * Pow2Rec(n - 1)

\* the powers of two, tabulated
Pow2Table == [n \in 0..30 |-> Pow2Rec(n)]
Pow2(n) == Pow2Table[n]

RECURSIVE BitAnd(_, _)
BitAnd(a, b) ==
    IF a = 0 \/ b = 0 THEN 0
    ELSE (IF a % 2 = 1 /\ b % 2 = 1 THEN 1 ELSE 0) + 2 * BitAnd(a \div 2, b \div 2)

RECURSIVE BitOr(_, _)
BitOr(a, b) ==
    IF a = 0 THEN b
    ELSE IF b = 0 THEN a
    ELSE (IF a % 2 = 1 \/ b % 2 = 1 THEN 1 ELSE 0) + 2 * BitOr(a \div 2, b \div 2)

RECURSIVE BitXor(_, _)
BitXor(a, b) ==
    IF a = 0 THEN b
    ELSE IF b = 0 THEN a
    ELSE (IF a % 2 # b % 2 THEN 1 ELSE 0) + 2 * BitXor(a \div 2, b \div 2)

\* 1 << n on a u32, n < 32
Shl1(n) == Pow2(n)

RECURSIVE count_ones(_)
count_ones(a) == IF a = 0 THEN 0 ELSE (a % 2) + count_ones(a \div 2)

----------------------------------------------------------------------------
(* Letter sets *)

\* alphabet_index panics ("not a letter") on any other byte
alphabet_index_panics(letter) == ~(IsUpper(letter) \/ IsLower(letter))

alphabet_index(letter) ==
    IF letter >= 65 /\ letter <= 90 THEN letter - 65
    ELSE letter - 97

word_panics(word) == \E i \in 1..Len(word) : alphabet_index_panics(word[i])

\* word_to_bits_from adding the letter's bit where the code ors it in
RECURSIVE word_to_bits_from_adding(_, _, _)
word_to_bits_from_adding(word, i, val) ==
    IF i > Len(word) THEN val
    ELSE word_to_bits_from_adding(word, i + 1, val + Shl1(alphabet_index(word[i])))

RECURSIVE word_to_bits_from(_, _, _)
word_to_bits_from(word, i, val) ==
    IF i > Len(word) THEN val
    ELSE word_to_bits_from(word, i + 1, BitOr(val, Shl1(alphabet_index(word[i]))))

\* defined when no byte of the word panics
word_to_bits(word) == word_to_bits_from(word, 1, 0)

\* is_valid_word with the length test off by one
is_valid_word_min3(word) ==
    IF Len(word) < 3 THEN FALSE
    ELSE \A i \in 1..Len(word) : is_ascii_alphabetic(word[i])

is_valid_word(word) ==
    IF Len(word) < 4 THEN FALSE
    ELSE \A i \in 1..Len(word) : is_ascii_alphabetic(word[i])

\* the half-open range 'A'..'Z': the codes 65 to 89
LetterRange == [i \in 1..25 |-> 64 + i]

RECURSIVE bits_to_letters_from(_, _, _)
bits_to_letters_from(bits, i, s) ==
    IF i > Len(LetterRange) THEN s
    ELSE bits_to_letters_from(bits, i + 1,
            IF BitAnd(bits, Shl1(alphabet_index(LetterRange[i]))) # 0
              THEN Append(s, LetterRange[i])
              ELSE s)

bits_to_letters(bits) == bits_to_letters_from(bits, 1, <<>>)

----------------------------------------------------------------------------
(* check_word: <<correct, reason, pangram>>, or Panicked when word_to_bits panics *)

TooShort == "is too short!"
WrongLetters == "does not use required letters"
NotInWordList == "is not in word list"
AlreadyFound == "was already found"
Hap == "hap :)"
Panicked == <<FALSE, "panicked: not a letter", FALSE>>

\* the letter test of check_word, first conjunct: word_bits & required_bit != 0
letter_test_required(word_bits, r_bit) == BitAnd(word_bits, r_bit) # 0

\* letter_test_subset with the target masked where the code masks the word
letter_test_superset(word_bits, t_bits) == BitAnd(BitXor(word_bits, t_bits), t_bits) = 0

\* second conjunct: (word_bits ^ target_bits) & word_bits == 0
letter_test_subset(word_bits, t_bits) == BitAnd(BitXor(word_bits, t_bits), word_bits) = 0

\* check_word looking the word up in the word list before testing its letters
check_word_dictionary_first(word, t_bits, r_bit, found, valid_words) ==
    IF Len(word) < 4 THEN <<FALSE, TooShort, FALSE>>
    ELSE IF word_panics(word) THEN Panicked
    ELSE LET word_bits == word_to_bits(word) IN
         IF Contains(valid_words, to_ascii_lowercase(word))
           THEN IF BitAnd(word_bits, r_bit) # 0 /\ BitAnd(BitXor(word_bits, t_bits), word_bits) = 0
                  THEN IF Contains(found, to_ascii_lowercase(word))
                         THEN <<FALSE, AlreadyFound, FALSE>>
                         ELSE <<TRUE, Hap, count_ones(word_bits) = 7>>
                  ELSE <<FALSE, WrongLetters, FALSE>>
           ELSE <<FALSE, NotInWordList, FALSE>>

\* check_word counting the target's letters, not the word's, for the pangram flag
check_word_pangram_of_target(word, t_bits, r_bit, found, valid_words) ==
    IF Len(word) < 4 THEN <<FALSE, TooShort, FALSE>>
    ELSE IF word_panics(word) THEN Panicked
    ELSE LET word_bits == word_to_bits(word) IN
         IF BitAnd(word_bits, r_bit) # 0 /\ BitAnd(BitXor(word_bits, t_bits), word_bits) = 0
           THEN IF Contains(valid_words, to_ascii_lowercase(word))
                  THEN IF Contains(found, to_ascii_lowercase(word))
                         THEN <<FALSE, AlreadyFound, FALSE>>
                         ELSE <<TRUE, Hap, count_ones(t_bits) = 7>>
                  ELSE <<FALSE, NotInWordList, FALSE>>
           ELSE <<FALSE, WrongLetters, FALSE>>

\* check_word looking the word up in the ledger as typed, not in lower case
check_word_ledger_as_typed(word, t_bits, r_bit, found, valid_words) ==
    IF Len(word) < 4 THEN <<FALSE, TooShort, FALSE>>
    ELSE IF word_panics(word) THEN Panicked
    ELSE LET word_bits == word_to_bits(word) IN
         IF BitAnd(word_bits, r_bit) # 0 /\ BitAnd(BitXor(word_bits, t_bits), word_bits) = 0
           THEN IF Contains(valid_words, to_ascii_lowercase(word))
                  THEN IF Contains(found, word)
                         THEN <<FALSE, AlreadyFound, FALSE>>
                         ELSE <<TRUE, Hap, count_ones(word_bits) = 7>>
                  ELSE <<FALSE, NotInWordList, FALSE>>
           ELSE <<FALSE, WrongLetters, FALSE>>

\* check_word without the look into the word list
check_word_any_spelling(word, t_bits, r_bit, found, valid_words) ==
    IF Len(word) < 4 THEN <<FALSE, TooShort, FALSE>>
    ELSE IF word_panics(word) THEN Panicked
    ELSE LET word_bits == word_to_bits(word) IN
         IF BitAnd(word_bits, r_bit) # 0 /\ BitAnd(BitXor(word_bits, t_bits), word_bits) = 0
           THEN IF Contains(found, to_ascii_lowercase(word))
                  THEN <<FALSE, AlreadyFound, FALSE>>
                  ELSE <<TRUE, Hap, count_ones(word_bits) = 7>>
           ELSE <<FALSE, WrongLetters, FALSE>>

check_word(word, t_bits, r_bit, found, valid_words) ==
    IF Len(word) < 4 THEN <<FALSE, TooShort, FALSE>>
    ELSE IF word_panics(word) THEN Panicked
    ELSE LET word_bits == word_to_bits(word) IN
         IF letter_test_required(word_bits, r_bit) /\ letter_test_subset(word_bits, t_bits)
           THEN IF Contains(valid_words, to_ascii_lowercase(word))
                  THEN IF Contains(found, to_ascii_lowercase(word))
                         THEN <<FALSE, AlreadyFound, FALSE>>
                         ELSE <<TRUE, Hap, count_ones(word_bits) = 7>>
                  ELSE <<FALSE, NotInWordList, FALSE>>
           ELSE <<FALSE, WrongLetters, FALSE>>

----------------------------------------------------------------------------
(* Bounds and inputs *)

MaxTokens == 3          \* tokens in a word file (SpecLoad)
MaxBuf == 4             \* letters typed into the guess before it is submitted
MaxRotation == 1        \* shuffles of the tile letters tried in the running game (Spec)
MaxCalls == 2           \* calls of the function under test (pure specifications)
MaxBits == 9            \* letters a mask is built from (SpecBits)
MaxLedger == 1          \* words already found when a guess is checked (SpecCheck)
MaxMaskBits == 4        \* bit positions the masks of the letter test are built from (SpecMask)

Plastic == Str(<<"p","l","a","s","t","i","c">>)
Waltzes == Str(<<"w","a","l","t","z","e","s">>)
Papa    == Str(<<"p","a","p","a">>)
Tact    == Str(<<"T","a","c","t">>)
Cat     == Str(<<"c","a","t">>)
Isnt    == Str(<<"i","s","n","'","t">>)
Panic   == Str(<<"p","a","n","i","c">>)
Certain == Str(<<"c","e","r","t","a","i","n">>)
Nana    == Str(<<"n","a","n","a">>)
Naan    == Str(<<"n","a","a","n">>)

\* the tokens a word file is made of: pangrams with and without z, short and
\* capitalised words, a token with a byte that is no letter
TokenPool == <<Plastic, Waltzes, Papa, Tact, Cat, Isnt, Panic>>

RECURSIVE SeqsUpTo(_, _)
SeqsUpTo(S, n) ==
    IF n = 0 THEN {<<>>}
    ELSE SeqsUpTo(S, n - 1) \cup {Append(q, x) : q \in SeqsUpTo(S, n - 1), x \in S}

Range(q) == {q[i] : i \in 1..Len(q)}

AllFiles == SeqsUpTo(Range(TokenPool), MaxTokens)
GameFiles == {<<Certain, Nana, Naan, Cat>>, <<Waltzes, Papa>>, <<Papa, Isnt>>}
CheckFiles == {<<Plastic, Papa, Tact, Cat>>, <<Panic, Papa, Plastic>>, <<Waltzes, Papa>>}
GenFiles == {<<Plastic, Waltzes>>, <<Waltzes, to_uppercase(Plastic), Papa>>, <<Papa, Isnt>>,
             <<Cat, Isnt>>}

RECURSIVE PermSeqs(_)
PermSeqs(S) ==
    IF S = {} THEN {<<>>}
    ELSE UNION {{<<x>> \o q : q \in PermSeqs(S \ {x})} : x \in S}

Rotation(n, k) == [i \in 1..n |-> ((i - 1 + k) % n) + 1]

\* the outcomes of slice::shuffle on n bytes: every permutation ("all"), the
\* rotations only ("rotations": every letter comes first once), or the first
\* rotations ("first rotations")
ShufflesOf(kind, n) ==
    IF kind = "all" THEN PermSeqs(1..n)
    ELSE IF kind = "rotations" THEN {Rotation(n, k) : k \in 0..(n - 1)}
    ELSE {Rotation(n, k) : k \in {j \in 0..MaxRotation : j < n}}

----------------------------------------------------------------------------
(* Startup: main, setup_word_list, setup_goals, setup_shapes *)

Systems == {"chose_letter", "add_letter", "guess_word", "wrong_word_hint", "show_correct_words"}

\* the resources main inserts, before any startup system ran
Boot(files) ==
    /\ pc = "boot"
    /\ file \in files
    /\ all_valid_words = <<>>
    /\ potential_pangrams = <<>>
    /\ target_string = <<>>
    /\ target_bits = 0
    /\ required_letter = 32
    /\ required_bit = 0
    /\ correct_words = <<>>
    /\ tiles = <<>>
    /\ current = <<>>
    /\ found_text = 0
    /\ char_events = <<>>
    /\ letter_events = <<>>
    /\ accepted_events = <<>>
    /\ rejected_events = <<>>
    /\ keys = {}
    /\ ran = Systems
    /\ arg = <<>>
    /\ ret = <<>>
    /\ calls = 0

RECURSIVE load_words(_, _, _)
load_words(tokens, i, lists) ==
    IF i > Len(tokens) THEN lists
    ELSE LET word == tokens[i] IN
         load_words(tokens, i + 1,
            IF is_valid_word(word)
              THEN [all |-> Append(lists.all, word),
                    pangrams |-> IF count_ones(word_to_bits(word)) = 7
                                   THEN Append(lists.pangrams, word)
                                   ELSE lists.pangrams]
              ELSE lists)

setup_word_list ==
    /\ pc = "boot"
    /\ LET lists == load_words(file, 1, [all |-> all_valid_words, pangrams |-> potential_pangrams]) IN
         /\ all_valid_words' = lists.all
         /\ potential_pangrams' = lists.pangrams
    /\ pc' = "words_loaded"
    /\ UNCHANGED <<file, gamestate_vars, frame_vars, pure_vars>>

Shuffled(s, p) == [i \in 1..Len(s) |-> s[p[i]]]

\* goals_of taking the required letter before the shuffle
goals_of_required_before_shuffle(bits, sorted, p) ==
    LET letters == Shuffled(sorted, p) IN
      [target_bits |-> bits,
       target_string |-> letters,
       required_letter |-> sorted[1],
       required_bit |-> Shl1(alphabet_index(sorted[1]))]

\* the GameState fields setup_goals writes: bits = word_to_bits(target_pangram),
\* sorted = bits_to_letters(bits), p the outcome of the shuffle
goals_of(bits, sorted, p) ==
    LET letters == Shuffled(sorted, p) IN
      [target_bits |-> bits,
       target_string |-> letters,
       required_letter |-> letters[1],
       required_bit |-> Shl1(alphabet_index(letters[1]))]

\* the pangram chosen by choose() is potential_pangrams[k]
setup_goals(kind) ==
    /\ pc = "words_loaded"
    /\ IF potential_pangrams = <<>>
         THEN \* choose() is None: unwrap panics
              /\ pc' = "panicked"
              /\ UNCHANGED gamestate_vars
         ELSE \E k \in 1..Len(potential_pangrams) :
              \E bits \in {word_to_bits(to_uppercase(potential_pangrams[k]))} :
              \E sorted \in {bits_to_letters(bits)} :
              \E p \in ShufflesOf(kind, Len(sorted)) :
              \E g \in {goals_of(bits, sorted, p)} :
                  /\ target_bits' = g.target_bits
                  /\ target_string' = g.target_string
                  /\ required_letter' = g.required_letter
                  /\ required_bit' = g.required_bit
                  /\ pc' = "goals_set"
                  /\ UNCHANGED correct_words
    /\ UNCHANGED <<file, wordlist_vars, frame_vars, pure_vars>>

setup_shapes ==
    /\ pc = "goals_set"
    /\ IF Len(target_string) < 7
         THEN \* letters[i + 1] is out of bounds for a petal
              /\ pc' = "panicked"
              /\ UNCHANGED tiles
         ELSE /\ tiles' = [i \in 1..7 |-> target_string[i]]
              /\ pc' = "running"
    /\ UNCHANGED <<file, wordlist_vars, gamestate_vars, current, found_text, char_events,
                   letter_events, accepted_events, rejected_events, keys, ran, pure_vars>>

InitLoad == Boot(AllFiles)
NextLoad == setup_word_list
SpecLoad == InitLoad /\ [][NextLoad]_vars

InitGen == Boot(GenFiles)
NextGen == setup_word_list \/ setup_goals("all") \/ setup_shapes
SpecGen == InitGen /\ [][NextGen]_vars

----------------------------------------------------------------------------
(* word_to_bits and bits_to_letters on their own: SpecBits *)

\* alphabet indexes the words of SpecBits are spelled from, z first
BitsPoolOrder == <<25, 0, 24, 1, 12, 15, 11, 18, 19, 8, 2, 4, 13, 22>>
BitsPool == {BitsPoolOrder[i] : i \in 1..MaxBits}

RECURSIVE Ascending(_)
Ascending(S) ==
    IF S = {} THEN <<>>
    ELSE LET m == CHOOSE x \in S : \A y \in S : x <= y IN <<m>> \o Ascending(S \ {m})

Reverse(q) == [i \in 1..Len(q) |-> q[Len(q) + 1 - i]]

\* the letters of S as an upper-case word in alphabetical order, and as a
\* lower-case word in reverse order with its first letter repeated at the end
UpperWordOf(S) == [i \in 1..Cardinality(S) |-> 65 + Ascending(S)[i]]
LowerWordOf(S) ==
    LET w == Reverse([i \in 1..Cardinality(S) |-> 97 + Ascending(S)[i]])
    IN IF w = <<>> THEN w ELSE Append(w, w[1])

BitsWords == {UpperWordOf(S) : S \in SUBSET BitsPool} \cup {LowerWordOf(S) : S \in SUBSET BitsPool}

InitBits ==
    /\ pc = "bits"
    /\ arg \in BitsWords
    /\ ret = <<>>
    /\ calls = 0
    /\ file = <<>>
    /\ all_valid_words = <<>>
    /\ potential_pangrams = <<>>
    /\ target_string = <<>>
    /\ target_bits = 0
    /\ required_letter = 32
    /\ required_bit = 0
    /\ correct_words = <<>>
    /\ tiles = <<>>
    /\ current = <<>>
    /\ found_text = 0
    /\ char_events = <<>>
    /\ letter_events = <<>>
    /\ accepted_events = <<>>
    /\ rejected_events = <<>>
    /\ keys = {}
    /\ ran = Systems

\* val = word_to_bits(arg)
Encode ==
    /\ pc = "bits"
    /\ ret' = [bits |-> word_to_bits(arg)]
    /\ pc' = "encoded"
    /\ calls' = calls + 1
    /\ UNCHANGED <<file, wordlist_vars, gamestate_vars, frame_vars, arg>>

\* s = bits_to_letters(val)
Decode ==
    /\ pc = "encoded"
    /\ ret' = [bits |-> ret.bits, letters |-> bits_to_letters(ret.bits)]
    /\ pc' = "decoded"
    /\ calls' = calls + 1
    /\ UNCHANGED <<file, wordlist_vars, gamestate_vars, frame_vars, arg>>

\* word_to_bits(s)
Reencode ==
    /\ pc = "decoded"
    /\ ret' = [bits |-> ret.bits, letters |-> ret.letters, again |-> word_to_bits(ret.letters)]
    /\ pc' = "reencoded"
    /\ calls' = calls + 1
    /\ UNCHANGED <<file, wordlist_vars, gamestate_vars, frame_vars, arg>>

NextBits == Encode \/ Decode \/ Reencode
SpecBits == InitBits /\ [][NextBits]_vars

----------------------------------------------------------------------------
(* The letter test of check_word on its own: SpecMask *)

\* the bit positions of the masks: z, a, y, b, ...
MaskPool == {BitsPoolOrder[i] : i \in 1..MaxMaskBits}

RECURSIVE MaskOf(_)
MaskOf(S) ==
    IF S = {} THEN 0
    ELSE LET m == CHOOSE x \in S : TRUE IN Pow2(m) + MaskOf(S \ {m})

Masks == {MaskOf(S) : S \in SUBSET MaskPool}

InitMask ==
    /\ pc = "mask"
    /\ arg \in [word_bits : Masks, target_bits : Masks, required_bit : {Pow2(i) : i \in MaskPool}]
    /\ ret = <<>>
    /\ calls = 0
    /\ file = <<>>
    /\ all_valid_words = <<>>
    /\ potential_pangrams = <<>>
    /\ target_string = <<>>
    /\ target_bits = 0
    /\ required_letter = 32
    /\ required_bit = 0
    /\ correct_words = <<>>
    /\ tiles = <<>>
    /\ current = <<>>
    /\ found_text = 0
    /\ char_events = <<>>
    /\ letter_events = <<>>
    /\ accepted_events = <<>>
    /\ rejected_events = <<>>
    /\ keys = {}
    /\ ran = Systems

\* the condition of check_word's second if, and its two conjuncts
letter_test ==
    /\ pc = "mask"
    /\ \E r \in {letter_test_required(arg.word_bits, arg.required_bit)} :
       \E s \in {letter_test_subset(arg.word_bits, arg.target_bits)} :
           ret' = [required |-> r, subset |-> s, passes |-> r /\ s]
    /\ pc' = "tested"
    /\ calls' = calls + 1
    /\ UNCHANGED <<file, wordlist_vars, gamestate_vars, frame_vars, arg>>

NextMask == letter_test
SpecMask == InitMask /\ [][NextMask]_vars

----------------------------------------------------------------------------
(* check_word on its own: SpecCheck *)

Clap == Str(<<"c","l","a","p">>)
Pal  == Str(<<"p","a","l">>)

\* the guesses: every token and two more words, as written, in upper and in lower case
GuessWords == Range(TokenPool) \cup {Clap, Pal, <<>>}
Guesses == GuessWords \cup {to_uppercase(w) : w \in GuessWords}
                      \cup {to_ascii_lowercase(w) : w \in GuessWords}

LedgerWords == {to_ascii_lowercase(w) : w \in {Plastic, Waltzes, Papa, Tact, Panic}}
Ledgers == SeqsUpTo(LedgerWords, MaxLedger)

\* a word list and a puzzle as the startup systems leave them, a ledger and a guess
InitCheck ==
    /\ pc = "check"
    /\ file \in CheckFiles
    /\ \E lists \in {load_words(file, 1, [all |-> <<>>, pangrams |-> <<>>])} :
         /\ all_valid_words = lists.all
         /\ potential_pangrams = lists.pangrams
         /\ \E k \in 1..Len(lists.pangrams) :
            \E bits \in {word_to_bits(to_uppercase(lists.pangrams[k]))} :
            \E sorted \in {bits_to_letters(bits)} :
            \E p \in ShufflesOf("rotations", Len(sorted)) :
            \E g \in {goals_of(bits, sorted, p)} :
              /\ target_bits = g.target_bits
              /\ target_string = g.target_string
              /\ required_letter = g.required_letter
              /\ required_bit = g.required_bit
    /\ correct_words \in Ledgers
    /\ arg \in Guesses
    /\ ret = <<>>
    /\ calls = 0
    /\ tiles = <<>>
    /\ current = <<>>
    /\ found_text = 0
    /\ char_events = <<>>
    /\ letter_events = <<>>
    /\ accepted_events = <<>>
    /\ rejected_events = <<>>
    /\ keys = {}
    /\ ran = Systems

\* validate_guess recording the accepted guess itself
validate_guess_recording ==
    /\ pc = "check"
    /\ calls < MaxCalls
    /\ \E out \in {check_word(arg, target_bits, required_bit, correct_words, all_valid_words)} :
         /\ ret' = [outcome |-> out, at |-> Len(correct_words) + (IF out[1] THEN 1 ELSE 0)]
         /\ correct_words' = IF out[1] THEN Append(correct_words, to_ascii_lowercase(arg))
                                       ELSE correct_words
    /\ calls' = calls + 1
    /\ UNCHANGED <<pc, file, wordlist_vars, target_string, target_bits, required_letter,
                   required_bit, frame_vars, arg>>

\* check_word(arg, &gamestate, &wordlist); at is the ledger's length at the call
validate_guess ==
    /\ pc = "check"
    /\ calls < MaxCalls
    /\ ret' = [outcome |-> check_word(arg, target_bits, required_bit, correct_words, all_valid_words),
               at |-> Len(correct_words)]
    /\ calls' = calls + 1
    /\ UNCHANGED <<pc, file, wordlist_vars, gamestate_vars, frame_vars, arg>>

\* the accepted guess is recorded, as show_correct_words records an accepted word
record_accepted ==
    /\ pc = "check"
    /\ ret # <<>>
    /\ ret.outcome[1]
    /\ ret.at = Len(correct_words)
    /\ correct_words' = Append(correct_words, to_ascii_lowercase(arg))
    /\ UNCHANGED <<pc, file, wordlist_vars, target_string, target_bits, required_letter,
                   required_bit, frame_vars, pure_vars>>

NextCheck == validate_guess \/ record_accepted
SpecCheck == InitCheck /\ [][NextCheck]_vars

----------------------------------------------------------------------------
(* The running game: Spec *)
(*                                                                          *)
(* Every frame the five systems below run once each, in an order the        *)
(* scheduler picks (main orders none of them). An event sent in a frame is  *)
(* read by its reader later in that frame or in the next one, once: each    *)
(* event list holds the events its reader has not read yet.                 *)

\* the characters a player types: two tile letters, one in each case, a letter
\* that is on no tile, and a digit
TypedChars == Range(Str(<<"n", "A", "s", "1">>))

\* a whole word received within one frame (fast typing, a slow frame)
Bursts == {Nana, Naan}

\* the characters received in a frame: none, one, or a burst
FrameChars == {<<>>} \cup {<<c>> : c \in TypedChars} \cup Bursts

\* the keys pressed in a frame
FrameKeys == SUBSET {"Return", "Back"}

\* a frame begins: the window's characters and key presses of the frame arrive
BeginFrameOf(frame_chars, frame_keys) ==
    /\ pc = "running"
    /\ ran = Systems
    /\ \E chars \in frame_chars :
         /\ Len(current) + Len(letter_events) + Len(chars) <= MaxBuf
         /\ char_events' = chars
    /\ keys' \in frame_keys
    /\ ran' = {}
    /\ UNCHANGED <<pc, file, wordlist_vars, gamestate_vars, tiles, current, found_text,
                   letter_events, accepted_events, rejected_events, pure_vars>>

BeginFrame == BeginFrameOf(FrameChars, FrameKeys)

IsTileLetter(c) ==
    \E i \in 1..Len(tiles) : char_to_ascii_uppercase(c) = char_to_ascii_uppercase(tiles[i])

\* chose_letter accepting every character received, tile letter or not
chose_letter_any_char ==
    /\ pc = "running"
    /\ "chose_letter" \notin ran
    /\ letter_events' = letter_events \o char_events
    /\ char_events' = <<>>
    /\ ran' = ran \cup {"chose_letter"}
    /\ UNCHANGED <<pc, file, wordlist_vars, gamestate_vars, tiles, current, found_text,
                   accepted_events, rejected_events, keys, pure_vars>>

chose_letter ==
    /\ pc = "running"
    /\ "chose_letter" \notin ran
    /\ letter_events' = letter_events \o SelectSeq(char_events, IsTileLetter)
    /\ char_events' = <<>>
    /\ ran' = ran \cup {"chose_letter"}
    /\ UNCHANGED <<pc, file, wordlist_vars, gamestate_vars, tiles, current, found_text,
                   accepted_events, rejected_events, keys, pure_vars>>

add_letter ==
    /\ pc = "running"
    /\ "add_letter" \notin ran
    /\ current' = current \o to_uppercase(letter_events)
    /\ letter_events' = <<>>
    /\ ran' = ran \cup {"add_letter"}
    /\ UNCHANGED <<pc, file, wordlist_vars, gamestate_vars, tiles, found_text, char_events,
                   accepted_events, rejected_events, keys, pure_vars>>

\* String::pop
Popped(word) == IF word = <<>> THEN word ELSE SubSeq(word, 1, Len(word) - 1)

\* guess_word clearing the guess only when it was accepted
guess_word_keeps_rejected_guess ==
    /\ pc = "running"
    /\ "guess_word" \notin ran
    /\ ran' = ran \cup {"guess_word"}
    /\ IF "Return" \in keys
         THEN \E out \in {check_word(current, target_bits, required_bit, correct_words, all_valid_words)} :
                IF out = Panicked
                  THEN /\ pc' = "panicked"
                       /\ UNCHANGED <<accepted_events, rejected_events, current>>
                  ELSE /\ pc' = pc
                       /\ IF out[1]
                            THEN /\ accepted_events' = Append(accepted_events, [word |-> current, pangram |-> out[3]])
                                 /\ current' = <<>>
                                 /\ UNCHANGED rejected_events
                            ELSE /\ rejected_events' = Append(rejected_events, [word |-> current, reason |-> out[2]])
                                 /\ current' = IF "Back" \in keys THEN Popped(current) ELSE current
                                 /\ UNCHANGED accepted_events
         ELSE /\ pc' = pc
              /\ current' = IF "Back" \in keys THEN Popped(current) ELSE current
              /\ UNCHANGED <<accepted_events, rejected_events>>
    /\ UNCHANGED <<file, wordlist_vars, gamestate_vars, tiles, found_text, char_events,
                   letter_events, keys, pure_vars>>

guess_word ==
    /\ pc = "running"
    /\ "guess_word" \notin ran
    /\ ran' = ran \cup {"guess_word"}
    /\ IF "Return" \in keys
         THEN \E out \in {check_word(current, target_bits, required_bit, correct_words, all_valid_words)} :
                IF out = Panicked
                  THEN /\ pc' = "panicked"
                       /\ UNCHANGED <<accepted_events, rejected_events, current>>
                  ELSE /\ pc' = pc
                       /\ IF out[1]
                            THEN /\ accepted_events' = Append(accepted_events, [word |-> current, pangram |-> out[3]])
                                 /\ UNCHANGED rejected_events
                            ELSE /\ rejected_events' = Append(rejected_events, [word |-> current, reason |-> out[2]])
                                 /\ UNCHANGED accepted_events
                       /\ current' = <<>>
         ELSE /\ pc' = pc
              /\ current' = IF "Back" \in keys THEN Popped(current) ELSE current
              /\ UNCHANGED <<accepted_events, rejected_events>>
    /\ UNCHANGED <<file, wordlist_vars, gamestate_vars, tiles, found_text, char_events,
                   letter_events, keys, pure_vars>>

\* reads the rejections and writes the last one into the hint text
wrong_word_hint ==
    /\ pc = "running"
    /\ "wrong_word_hint" \notin ran
    /\ rejected_events' = <<>>
    /\ ran' = ran \cup {"wrong_word_hint"}
    /\ UNCHANGED <<pc, file, wordlist_vars, gamestate_vars, tiles, current, found_text,
                   char_events, letter_events, accepted_events, keys, pure_vars>>

\* recorded_words pushing the words as typed
recorded_words_as_typed(events) == [i \in 1..Len(events) |-> events[i].word]

\* the words pushed for the events read, in order
recorded_words(events) == [i \in 1..Len(events) |-> to_ascii_lowercase(events[i].word)]

\* show_correct_words recording the first event only of those it reads
show_correct_words_first_only ==
    /\ pc = "running"
    /\ "show_correct_words" \notin ran
    /\ correct_words' = correct_words \o recorded_words(IF accepted_events = <<>> THEN <<>>
                                                          ELSE <<accepted_events[1]>>)
    /\ found_text' = IF accepted_events = <<>> THEN found_text
                     ELSE Len(correct_words) + 1
    /\ accepted_events' = <<>>
    /\ ran' = ran \cup {"show_correct_words"}
    /\ UNCHANGED <<pc, file, wordlist_vars, target_string, target_bits, required_letter,
                   required_bit, tiles, current, char_events, letter_events,
                   rejected_events, keys, pure_vars>>

show_correct_words ==
    /\ pc = "running"
    /\ "show_correct_words" \notin ran
    /\ correct_words' = correct_words \o recorded_words(accepted_events)
    /\ found_text' = IF accepted_events = <<>> THEN found_text
                     ELSE Len(correct_words) + Len(accepted_events)
    /\ accepted_events' = <<>>
    /\ ran' = ran \cup {"show_correct_words"}
    /\ UNCHANGED <<pc, file, wordlist_vars, target_string, target_bits, required_letter,
                   required_bit, tiles, current, char_events, letter_events,
                   rejected_events, keys, pure_vars>>

Init == Boot(GameFiles)
Next ==
    \/ setup_word_list
    \/ setup_goals("first rotations")
    \/ setup_shapes
    \/ BeginFrame
    \/ chose_letter
    \/ add_letter
    \/ guess_word
    \/ wrong_word_hint
    \/ show_correct_words
Spec == Init /\ [][Next]_vars

\* The game under its schedule, for what must happen in the end: the player
\* types whole words or nothing in a frame.
LiveChars == {<<>>} \cup Bursts
LiveKeys == FrameKeys
BeginFrameLive == BeginFrameOf(LiveChars, LiveKeys)

InitLive == Boot({<<Certain, Nana, Naan, Cat>>})
NextLive ==
    \/ setup_word_list
    \/ setup_goals("first rotations")
    \/ setup_shapes
    \/ BeginFrameLive
    \/ chose_letter
    \/ add_letter
    \/ guess_word
    \/ wrong_word_hint
    \/ show_correct_words

\* The schedule runs every system in every frame, and frames keep coming. No
\* fairness of guess_word is assumed: what is checked under SpecLive holds
\* without it.
Fairness ==
    /\ WF_vars(BeginFrameLive)
    /\ WF_vars(chose_letter)
    /\ WF_vars(add_letter)
    /\ WF_vars(wrong_word_hint)
    /\ WF_vars(show_correct_words)
SpecLive == InitLive /\ [][NextLive]_vars /\ Fairness

----------------------------------------------------------------------------
(* Vocabulary of the properties: letter sets as sets, not as masks *)

\* the letters of a word, as upper-case codes
UpperLetters(w) == {char_to_ascii_uppercase(w[i]) : i \in 1..Len(w)}

\* the positions of the bits set in a mask below 2^31
BitSet(n) == {i \in 0..30 : (n \div Pow2(i)) % 2 = 1}

\* the letters of a mask, as upper-case codes
MaskLetters(n) == {65 + i : i \in BitSet(n)}

IsLetter(c) == c \in (65..90) \cup (97..122)
Usable(t) == Len(t) >= 4 /\ \A i \in 1..Len(t) : IsLetter(t[i])
UsablePangram(t) == Usable(t) /\ Cardinality(UpperLetters(t)) = 7

NoRepeats(q) == \A i, j \in 1..Len(q) : i # j => q[i] # q[j]

\* a puzzle was generated (setup_goals returned)
Generated == pc \in {"goals_set", "running"} \/ (pc = "panicked" /\ target_bits # 0)

----------------------------------------------------------------------------
(* Properties of check_word (SpecCheck) *)

\* what the five checks, tried in order, answer on the ledger found
FirstFailingCheck(guess, found) ==
    IF Len(guess) < 4 THEN <<FALSE, TooShort>>
    ELSE IF required_letter \notin UpperLetters(guess) THEN <<FALSE, WrongLetters>>
    ELSE IF ~(UpperLetters(guess) \subseteq MaskLetters(target_bits)) THEN <<FALSE, WrongLetters>>
    ELSE IF to_ascii_lowercase(guess) \notin Range(all_valid_words) THEN <<FALSE, NotInWordList>>
    ELSE IF to_ascii_lowercase(guess) \in Range(found) THEN <<FALSE, AlreadyFound>>
    ELSE <<TRUE, Hap>>

\* C1: for a guess made of letters (or shorter than 4), check_word answers with
\* the first failing check in the order length, required letter, letters of the
\* target, word list, ledger, and accepts the guess that passes all five; the two
\* letter checks share the one reason the code has for them.
C1_FirstFailingCheckWins ==
    (pc = "check" /\ calls > 0 /\ (Len(arg) < 4 \/ ~word_panics(arg))) =>
        LET expected == FirstFailingCheck(arg, SubSeq(correct_words, 1, ret.at)) IN
          /\ ret.outcome[1] = expected[1]
          /\ ret.outcome[2] = expected[2]

\* a guess that fails a letter check and is not in the word list either was
\* reported for its letters; a short guess with foreign letters was reported short
C1_Witness ==
    /\ pc = "check" /\ calls > 0
    /\ Len(arg) >= 4 /\ ~word_panics(arg)
    /\ ret.outcome[2] = WrongLetters
    /\ to_ascii_lowercase(arg) \notin Range(all_valid_words)
    /\ ~(UpperLetters(arg) \subseteq MaskLetters(target_bits))

\* C2: with a target of 7 letters, an accepted guess is flagged a pangram exactly
\* when it has 7 distinct letters, its letters are then the target's, and no
\* rejection is flagged a pangram.
C2_PangramFlag ==
    (pc = "check" /\ calls > 0 /\ Cardinality(BitSet(target_bits)) = 7
       /\ (Len(arg) < 4 \/ ~word_panics(arg))) =>
        /\ ret.outcome[1] =>
             /\ ret.outcome[3] <=> (Cardinality(UpperLetters(arg)) = 7)
             /\ ret.outcome[3] => UpperLetters(arg) = MaskLetters(target_bits)
        /\ ~ret.outcome[1] => ~ret.outcome[3]

\* an accepted pangram
C2_Witness ==
    /\ pc = "check" /\ calls > 0
    /\ ret.outcome = <<TRUE, Hap, TRUE>>
    /\ Cardinality(UpperLetters(arg)) = 7

----------------------------------------------------------------------------
(* Properties of the running game (Spec) *)

IsPrefix(p, q) == Len(p) <= Len(q) /\ SubSeq(q, 1, Len(p)) = p
Appended(p, q) == SubSeq(q, Len(p) + 1, Len(q))

\* a word in every mix of upper and lower case
CaseVariants(w) ==
    {[i \in 1..Len(w) |-> IF i \in S THEN char_to_ascii_uppercase(w[i])
                                     ELSE char_to_ascii_lowercase(w[i])] :
        S \in SUBSET (1..Len(w))}

\* guess_word ran in this step, with Return pressed
Submitted == "Return" \in keys /\ "guess_word" \notin ran /\ "guess_word" \in ran'

\* C3: once a word is in the ledger it stays there and the puzzle and the word
\* list stay as they are; whenever the ledger changes, checking any of its
\* words, in any letter case, answers "was already found" and never accepts;
\* and every submission of a word of the ledger is rejected as already found.
C3_DuplicateLaw ==
    [][/\ pc = "running" =>
            /\ IsPrefix(correct_words, correct_words')
            /\ UNCHANGED <<target_bits, required_bit, all_valid_words>>
       /\ correct_words' # correct_words =>
            \A w \in Range(correct_words') : \A g \in CaseVariants(w) :
                check_word(g, target_bits', required_bit', correct_words', all_valid_words')
                    = <<FALSE, AlreadyFound, FALSE>>
       /\ (Submitted /\ to_ascii_lowercase(current) \in Range(correct_words)) =>
            /\ accepted_events' = accepted_events
            /\ rejected_events' = Append(rejected_events, [word |-> current, reason |-> AlreadyFound])
      ]_vars

\* guess_word rejected a guess, typed in upper case, as already found
C3_Witness ==
    /\ pc = "running"
    /\ \E i \in 1..Len(rejected_events) :
         /\ rejected_events[i].reason = AlreadyFound
         /\ rejected_events[i].word # to_ascii_lowercase(rejected_events[i].word)
         /\ to_ascii_lowercase(rejected_events[i].word) \in Range(correct_words)

\* C4: the ledger never holds a word twice.
C4_NoDuplicateInLedger ==
    NoRepeats([i \in 1..Len(correct_words) |-> to_ascii_lowercase(correct_words[i])])

----------------------------------------------------------------------------
(* Properties of puzzle generation (SpecGen) *)

\* C7: the generated puzzle has a target of 7 bits and 7 distinct upper-case tile
\* letters, the letters of the target, and every tile gets a letter.
C7_SevenTileLetters ==
    Generated =>
        /\ Cardinality(BitSet(target_bits)) = 7
        /\ Len(target_string) = 7
        /\ NoRepeats(target_string)
        /\ Range(target_string) = MaskLetters(target_bits)
        /\ pc # "panicked"

\* C8: the required letter is the first letter of the shuffled target string, the
\* required bit is the bit of that letter alone, and it is one of the target's
\* bits but not all of them.
C8_RequiredLetterFirstOfShuffle ==
    Generated =>
        /\ required_letter = target_string[1]
        /\ BitSet(required_bit) = {required_letter - 65}
        /\ BitSet(required_bit) \subseteq BitSet(target_bits)
        /\ BitSet(required_bit) # BitSet(target_bits)

\* the shuffle moved another letter than the alphabetically first to the front
C8_Witness ==
    /\ pc = "running"
    /\ \E i \in BitSet(target_bits) : 65 + i < required_letter

----------------------------------------------------------------------------
(* Properties of the letter masks (SpecBits) *)

\* C9: bits_to_letters(word_to_bits(w)) is the distinct letters of w in upper case
\* and ascending order, and encoding that string again gives the same mask.
C9_DecodeEncode ==
    /\ pc \in {"decoded", "reencoded"} => ret.letters = Ascending(UpperLetters(arg))
    /\ pc = "reencoded" => ret.again = ret.bits

----------------------------------------------------------------------------
(* Properties of the word list (SpecLoad) *)

\* C10: after loading, all_valid_words is the tokens of at least 4 characters,
\* all letters, potential_pangrams is those of them with 7 distinct letters, and
\* every pangram candidate is a valid word.
C10_WordListPartition ==
    pc = "words_loaded" =>
        /\ all_valid_words = SelectSeq(file, Usable)
        /\ potential_pangrams = SelectSeq(file, UsablePangram)
        /\ Range(potential_pangrams) \subseteq Range(all_valid_words)

\* a file with a token left out, a pangram candidate and another valid word
C10_Witness ==
    /\ pc = "words_loaded"
    /\ Len(all_valid_words) < Len(file)
    /\ Len(potential_pangrams) > 0
    /\ Len(potential_pangrams) < Len(all_valid_words)

----------------------------------------------------------------------------
(* More properties of check_word (SpecCheck) *)

\* the guess spells a usable token of the word file, in whatever letter case
SpellsUsableToken(guess) ==
    \E i \in 1..Len(file) :
        Usable(file[i]) /\ to_ascii_lowercase(file[i]) = to_ascii_lowercase(guess)

\* C11: when a guess is checked, the word list holds lower-case words only, and a
\* guess that spells a usable token of the word file, in any letter case, is
\* never rejected as not in the word list.
C11_CaseInsensitiveDictionary ==
    (pc = "check" /\ calls > 0) =>
        /\ \A i \in 1..Len(all_valid_words) :
             all_valid_words[i] = to_ascii_lowercase(all_valid_words[i])
        /\ SpellsUsableToken(arg) => ret.outcome[2] # NotInWordList

\* the guess omits the required letter
MissesRequiredLetter(guess) == required_letter \notin UpperLetters(guess)

\* the guess has the required letter and a letter that is none of the target's
UsesDisallowedLetter(guess) ==
    /\ required_letter \in UpperLetters(guess)
    /\ ~(UpperLetters(guess) \subseteq MaskLetters(target_bits))

\* C12: in a puzzle of 7 tile letters, a guess of 4 letters or more that omits the required letter is rejected,
\* one that has it and uses a letter outside the target is rejected, and the
\* reason given for the second differs from the reason given for any guess of
\* the first kind.
C12_DistinctLetterReasons ==
    (pc = "check" /\ calls > 0 /\ Len(target_string) = 7
       /\ Len(arg) >= 4 /\ ~word_panics(arg)) =>
        /\ MissesRequiredLetter(arg) => ~ret.outcome[1]
        /\ UsesDisallowedLetter(arg) =>
             /\ ~ret.outcome[1]
             /\ \A g \in Guesses :
                  (Len(g) >= 4 /\ ~word_panics(g) /\ MissesRequiredLetter(g)) =>
                      check_word(g, target_bits, required_bit, correct_words, all_valid_words)[2]
                          # ret.outcome[2]

----------------------------------------------------------------------------
(* More properties of the running game (Spec) *)

\* a ledger that refuses a word it holds: the ledger after recording word
Recorded(ledger, word) ==
    IF to_ascii_lowercase(word) \in Range(ledger) THEN ledger
    ELSE Append(ledger, to_ascii_lowercase(word))

RECURSIVE RecordedAll(_, _, _)
RecordedAll(ledger, events, i) ==
    IF i > Len(events) THEN ledger
    ELSE RecordedAll(Recorded(ledger, events[i].word), events, i + 1)

\* show_correct_words ran in this step
Recording == "show_correct_words" \notin ran /\ "show_correct_words" \in ran'

\* C13: recording a word the ledger holds, compared in lower case, leaves the
\* ledger as it is, and recording a new word appends it in lower case, whatever
\* the validator answered before.
C13_RecordRefusesDuplicate ==
    [][Recording => correct_words' = RecordedAll(correct_words, accepted_events, 1)]_vars

----------------------------------------------------------------------------
(* More properties of puzzle generation (SpecGen) *)

\* the startup systems that follow setup_word_list were reached
WordsLoaded == pc # "boot"

\* C14: with no usable word or no pangram candidate in the word file startup
\* stops before any puzzle exists: no target, no tiles, and the game never runs;
\* with a pangram candidate startup never fails and the game gets to run.
C14_StartupOutcome ==
    WordsLoaded =>
        /\ potential_pangrams = <<>> =>
             /\ pc \in {"words_loaded", "panicked"}
             /\ target_bits = 0 /\ target_string = <<>> /\ required_bit = 0
             /\ tiles = <<>>
        /\ potential_pangrams # <<>> => pc # "panicked"

----------------------------------------------------------------------------
(* More properties of the letter masks (SpecBits) *)

\* C15: word_to_bits(w) of a word of letters has bit i set exactly when the i-th
\* letter of the alphabet occurs in w in either case, has no bit above bit 25 and
\* at most 26 bits, and is the mask of the same letters spelled in another
\* order, in the other case and with a letter repeated.
C15_EncodeIsLetterSet ==
    pc \in {"encoded", "decoded", "reencoded"} =>
        /\ BitSet(ret.bits) = {c - 65 : c \in UpperLetters(arg)}
        /\ BitSet(ret.bits) \subseteq 0..25
        /\ ret.bits < Pow2(26)
        /\ count_ones(ret.bits) = Cardinality(UpperLetters(arg))
        /\ count_ones(ret.bits) <= 26
        /\ \E S \in {BitSet(ret.bits)} :
             /\ word_to_bits(UpperWordOf(S)) = ret.bits
             /\ word_to_bits(LowerWordOf(S)) = ret.bits

\* a lower-case word with z and a repeated letter was encoded
C15_Witness ==
    /\ pc = "encoded"
    /\ Len(arg) >= 4
    /\ \A i \in 1..Len(arg) : IsLower(arg[i])
    /\ arg[1] = 122
    /\ arg[Len(arg)] = arg[1]
    /\ 25 \in BitSet(ret.bits)

\* the words of the outcome events not read yet
EventWords ==
    {accepted_events[i].word : i \in 1..Len(accepted_events)}
        \cup {rejected_events[i].word : i \in 1..Len(rejected_events)}

\* a word of upper-case letters, each on a tile and in the target
OfTileLetters(word) ==
    \A i \in 1..Len(word) :
        /\ IsUpper(word[i])
        /\ word[i] \in Range(tiles)
        /\ word[i] \in MaskLetters(target_bits)

\* C16: in the running game the guess, and every guess that was submitted, is
\* made of upper-case letters of the 7 tiles, all of the target; the letters
\* waiting to be added are tile letters; no byte of the guess makes
\* alphabet_index panic, and the game never panics once it runs.
C16_GuessOfTileLetters ==
    /\ pc = "running" =>
         /\ Len(tiles) = 7
         /\ OfTileLetters(current)
         /\ ~word_panics(current)
         /\ \A w \in EventWords : OfTileLetters(w)
         /\ \A i \in 1..Len(letter_events) :
              char_to_ascii_uppercase(letter_events[i]) \in Range(tiles)
    /\ pc = "panicked" => tiles = <<>>

\* after a submission, letters typed in lower case and a backspace, the guess
\* holds N
C16_Witness ==
    /\ pc = "running"
    /\ 78 \in Range(current)
    /\ {"chose_letter", "add_letter", "guess_word"} \subseteq ran
    /\ rejected_events # <<>>
    /\ keys = {"Back"}

\* guess_word ran in this step
Guessing == "guess_word" \notin ran /\ "guess_word" \in ran'

\* q2 is q1 with one event for the word added at its end
OneMoreFor(q1, q2, word) ==
    /\ Len(q2) = Len(q1) + 1
    /\ IsPrefix(q1, q2)
    /\ q2[Len(q2)].word = word

\* C18: a run of guess_word with Return pressed sends exactly one outcome
\* event, an acceptance or a rejection, for the guess as it was, and empties the
\* guess; an empty guess is rejected as too short. A run with Backspace and no
\* Return removes the last letter of the guess, or nothing when it is empty, and
\* sends no event; a run with neither key changes nothing; no other system
\* sends an outcome event or touches the guess but add_letter, which only adds.
C18_SubmissionOutcome ==
    [][/\ (Guessing /\ "Return" \in keys) =>
            /\ current' = <<>>
            /\ \/ /\ OneMoreFor(accepted_events, accepted_events', current)
                  /\ rejected_events' = rejected_events
               \/ /\ OneMoreFor(rejected_events, rejected_events', current)
                  /\ accepted_events' = accepted_events
            /\ current = <<>> =>
                 rejected_events' = Append(rejected_events, [word |-> <<>>, reason |-> TooShort])
       /\ (Guessing /\ "Return" \notin keys) =>
            /\ accepted_events' = accepted_events
            /\ rejected_events' = rejected_events
            /\ current' = IF "Back" \in keys /\ current # <<>>
                            THEN SubSeq(current, 1, Len(current) - 1)
                            ELSE current
       /\ ~Guessing =>
            /\ Len(accepted_events') <= Len(accepted_events)
            /\ Len(rejected_events') <= Len(rejected_events)
            /\ IsPrefix(current, current')
      ]_vars

\* Return and Backspace were pressed in one frame on an empty guess: it was
\* rejected as too short and the guess is empty
C18_Witness ==
    /\ pc = "running"
    /\ keys = {"Return", "Back"}
    /\ "guess_word" \in ran
    /\ current = <<>>
    /\ \E i \in 1..Len(rejected_events) :
         rejected_events[i] = [word |-> <<>>, reason |-> TooShort]

\* C19: every word of the ledger is a find of the puzzle: in lower case, of 4
\* letters or more, a word of all_valid_words, with the required letter and
\* with letters of the target only.
C19_LedgerWordsAreFinds ==
    \A i \in 1..Len(correct_words) :
        /\ correct_words[i] = to_ascii_lowercase(correct_words[i])
        /\ Len(correct_words[i]) >= 4
        /\ correct_words[i] \in Range(all_valid_words)
        /\ required_letter \in UpperLetters(correct_words[i])
        /\ UpperLetters(correct_words[i]) \subseteq MaskLetters(target_bits)

\* two different words were found
C19_Witness ==
    /\ pc = "running"
    /\ Len(correct_words) >= 2
    /\ correct_words[1] # correct_words[2]

----------------------------------------------------------------------------
(* Properties of the letter test (SpecMask) *)

\* !bits on the 26 bits of the alphabet
Complement26(bits) == (Pow2(26) - 1) - bits

\* C20: the second conjunct of the letter test is true exactly when every bit
\* of word_bits is a bit of target_bits, which is when word_bits & !target_bits
\* is 0; the first exactly when the required bit is a bit of word_bits; and the
\* test passes exactly when both are.
C20_LetterTestIsSubsetTest ==
    pc = "tested" =>
        /\ ret.subset <=> (BitSet(arg.word_bits) \subseteq BitSet(arg.target_bits))
        /\ ret.subset <=> (BitAnd(arg.word_bits, Complement26(arg.target_bits)) = 0)
        /\ ret.required <=> (BitSet(arg.required_bit) \subseteq BitSet(arg.word_bits))
        /\ ret.passes <=> (BitSet(arg.required_bit) \subseteq BitSet(arg.word_bits)
                             /\ BitSet(arg.word_bits) \subseteq BitSet(arg.target_bits))

\* a word with the required letter and fewer letters than the target, z among
\* them, passed the test
C20_Witness ==
    /\ pc = "tested"
    /\ ret.passes
    /\ 25 \in BitSet(arg.word_bits)
    /\ arg.word_bits # arg.target_bits
    /\ arg.word_bits # arg.required_bit

----------------------------------------------------------------------------
(* Properties of the running game under its schedule (SpecLive) *)

\* the words the player can have accepted
Finds == {to_uppercase(Nana), to_uppercase(Naan)}

\* an acceptance of the word waits to be read
Pending(word) == \E i \in 1..Len(accepted_events) : accepted_events[i].word = word

\* guess_word sent an acceptance in this step
Accepting == Len(accepted_events') = Len(accepted_events) + 1

\* C17: an acceptance sent by guess_word is read by show_correct_words in the
\* end, once: the acceptances sent are, at any time, those recorded and those
\* waiting, a run of show_correct_words appends the lower-case words of all
\* that wait, in order, and leaves none waiting, the count shown is the
\* ledger's length, and every acceptance that waits is recorded eventually.
C17_AcceptedIsRecorded ==
    /\ [](found_text = Len(correct_words))
    /\ [][/\ Len(correct_words') + Len(accepted_events')
              = Len(correct_words) + Len(accepted_events) + (IF Accepting THEN 1 ELSE 0)
          /\ Accepting => Guessing
          /\ Recording =>
               /\ accepted_events' = <<>>
               /\ correct_words' = correct_words
                     \o [i \in 1..Len(accepted_events) |-> to_ascii_lowercase(accepted_events[i].word)]
          /\ ~Recording => correct_words' = correct_words]_vars
    /\ accepted_events # <<>> ~> accepted_events = <<>>
    /\ \A w \in Finds : Pending(w) ~> (~Pending(w) /\ to_ascii_lowercase(w) \in Range(correct_words))

\* an acceptance waits for the next frame: show_correct_words ran before guess_word
C17_Witness ==
    /\ pc = "running"
    /\ accepted_events # <<>>
    /\ "show_correct_words" \in ran

====
